---- MODULE Spec2Model ----
(***************************************************************************)
(* DBTeleBot: the ingestion pipeline of src/main.py (history backfill in   *)
(* TelegramUserClient.setup, live events in handle_message) over the       *)
(* ledger of src/database.py, the analysis client of src/ollama_client.py  *)
(* and the wiki client of src/wiki_client.py.                              *)
(*                                                                         *)
(* One action is one resumption of a coroutine: the code that runs, on the *)
(* single event-loop thread, from the completion of one awaited I/O call   *)
(* up to the next awaited I/O call.  The coroutines are the backfill (the  *)
(* body of setup) and one handle_message task per live event.  The ledger  *)
(* table and the wiki outlive the process; every other variable is process *)
(* memory and is lost when the process ends.                               *)
(***************************************************************************)
EXTENDS Integers, Sequences, FiniteSets, TLC

(* ---------------------------- bounds ----------------------------------- *)

\* Number of messages in the monitored conversation (ids 1..NumMsgs): with
\* the page size below, a full page, a short page and the empty page.
NumMsgs == 3
\* Number of live NewMessage events delivered over the whole execution.
MaxLive == 1
\* Number of times the process is started.
MaxRuns == 2
\* Number of failing external calls and process crashes over the execution.
MaxFaults == 1
\* Number of saving edit_page calls when edit_page is called directly
\* (SpecEdit).
MaxEdits == 4
\* Length, in tokens, of the response text of the analysis service when
\* analyze_text is called directly (SpecAnalyze).
MaxText == 4

\* Page size of the history scan: `limit = 100` in the source, scaled down.
limit == 2

Msgs == 1..NumMsgs

\* The task that runs setup() and, in it, the history scan.
Backfill == 0
\* One handle_message task per delivered live event.
Handlers == 1..MaxLive
TaskIds == {Backfill} \cup Handlers

(* ---------------------------- values ----------------------------------- *)

\* message.text of a conversation message: empty or not.
Texts == {"", "hello"}

\* SQL NULL in a nullable column.
NULL == "NULL"

\* Python None as a result of analyze_text.
NoAnalysis == [isNone |-> TRUE, keys |-> {}, title |-> ""]
\* A parsed JSON object with the given keys.
Dict(keys, title) == [isNone |-> FALSE, keys |-> keys, title |-> title]

\* What analyze_text can give back: None (status, brace search, JSON error,
\* transport exception), or whatever JSON object the model's answer holds:
\* no field at all, no title field, or a title.
AnalysisResults ==
    { NoAnalysis,
      Dict({}, ""),
      Dict({"summary"}, ""),
      Dict({"title", "summary"}, "T") }

\* Python truthiness of an analyze_text result: None and {} are falsy.
Truthy(a) == ~a.isNone /\ a.keys # {}

\* A result that is an error of the call, or that the pipeline treats as one.
IsFault(a) == ~Truthy(a)

\* The fallback title, a Cyrillic word for "Message" followed by "_" and the
\* id (transliterated here).
FallbackTitle(m) == "Soobshchenie_" \o ToString(m)

\* analysis.get('title', fallback)
TitleOf(a, m) == IF "title" \in a.keys THEN a.title ELSE FallbackTitle(m)

Titles == {"T"} \cup {FallbackTitle(m) : m \in Msgs}

\* json.dumps(analysis) if analysis else None
JsonDumps(a) ==
    IF ~Truthy(a) THEN NULL
    ELSE IF "title" \in a.keys THEN "{\"title\": \"" \o a.title \o "\", \"summary\": \"s\"}"
    ELSE "{\"summary\": \"s\"}"

\* message.sender_id and message.date of conversation message m.
SenderOf(m) == 100 + m
DateOf(m) == 1000 + m

\* The page text rendered for a message: heading, text, metadata block.
Content(title, m, text) ==
    [kind |-> "content", title |-> title, text |-> text,
     date |-> DateOf(m), author |-> SenderOf(m), id |-> m]

\* The "\n\n" put between the old text and the appended text.
Sep == [kind |-> "sep"]

(* ---------------------------- analyze_text ----------------------------- *)

\* The tokens of a response text: the braces; "t", the members
\* `"title": "T", "summary": "s"`; "s", the member `"summary": "s"`; "x", any
\* other text.
Tokens == {"{", "}", "t", "s", "x"}

ResponseTexts == UNION {[1..n -> Tokens] : n \in 0..MaxText}

\* What `await session.post(...)` and the reads of the response give:
\* raises, the POST raised (transport error); status, the HTTP status; json,
\* whether response.json() can parse the body; response, the value of the
\* field 'response' of the body ('' when the field is missing).
Replies ==
    {[raises |-> TRUE, status |-> 0, json |-> FALSE, response |-> <<>>]}
    \cup {[raises |-> FALSE, status |-> 500, json |-> FALSE, response |-> <<>>]}
    \cup {[raises |-> FALSE, status |-> 200, json |-> FALSE, response |-> <<>>]}
    \cup {[raises |-> FALSE, status |-> 200, json |-> TRUE, response |-> r] :
              r \in ResponseTexts}

\* The text arguments of a direct call: empty, whitespace only, a text.
CallTexts == {"", " ", "hello"}

\* An exception leaving a block.
Raised == [isNone |-> FALSE, keys |-> {"exception"}, title |-> ""]

\* str.find and str.rfind: the 0-based index of the first and of the last
\* occurrence, -1 when there is none.
Find(str, ch) ==
    LET at == {j \in 1..Len(str) : str[j] = ch} IN
    IF at = {} THEN -1 ELSE (CHOOSE j \in at : \A k \in at : j <= k) - 1
RFind(str, ch) ==
    LET at == {j \in 1..Len(str) : str[j] = ch} IN
    IF at = {} THEN -1 ELSE (CHOOSE j \in at : \A k \in at : j >= k) - 1

\* str[start:end] for 0 <= start, end <= len(str).
Slice(str, start, end) == SubSeq(str, start + 1, end)

\* json.loads on the tokens: an object with no member or with one of the two
\* member tokens parses; anything else is a JSONDecodeError.
JsonObjects ==
    {<<"{", "}">>, <<"{", "t", "}">>, <<"{", "s", "}">>}
JsonLoads(json_text) ==
    IF json_text \notin JsonObjects THEN Raised
    ELSE IF Len(json_text) = 2 THEN Dict({}, "")
    ELSE IF json_text[2] = "t" THEN Dict({"title", "summary"}, "T")
    ELSE Dict({"summary"}, "")

\* The body of the try block of analyze_text from the reply on.  (json_text
\* begins with "{" and ends with "}", so strip() and the removal of a
\* code-fence prefix or suffix leave it as it is.)
TryBlock(reply) ==
    IF reply.raises THEN Raised
    ELSE IF reply.status # 200 THEN NoAnalysis
    ELSE IF ~reply.json THEN Raised
    ELSE LET response_text == reply.response
             json_start == Find(response_text, "{")
             json_end == RFind(response_text, "}") + 1
         IN  IF json_start = -1 \/ json_end = 0 THEN NoAnalysis
             ELSE LET result == JsonLoads(Slice(response_text, json_start, json_end))
                  IN  IF result = Raised THEN NoAnalysis ELSE result

\* Mutant of analyze_text: without the `except Exception` around the body.
analyze_text_unguarded(reply) == TryBlock(reply)

\* analyze_text from the reply on: what the try block returns, None when an
\* exception leaves it.
analyze_text(reply) ==
    LET result == TryBlock(reply) IN
    IF result = Raised THEN NoAnalysis ELSE result

(* ---------------------------- state ------------------------------------ *)

VARIABLES
    chat,       \* the conversation: message id -> text
    messages,   \* the `messages` table, a sequence of rows (index = primary key)
    wiki,       \* the wiki: title -> page text, <<>> for a page that does not exist
    tasks,      \* the coroutines: task id -> its position and locals
    scan,       \* the locals of the history scan in setup()
    runs,       \* how many times the process was started
    delivered,  \* how many live events were delivered
    faults,     \* how many external calls failed or crashes happened
    writes,     \* history: message id -> number of page.save calls that saved
    probe,      \* one analyze_text call made directly (SpecAnalyze)
    resources,  \* the process's handles: resource -> none, open or closed
    saved       \* history: the <<message id, title>> of the page.save calls that saved

vars == <<chat, messages, wiki, tasks, scan, runs, delivered, faults, writes,
          probe, resources, saved>>

\* No direct analyze_text call.
NoProbe ==
    [state |-> "none", text |-> "", sent |-> FALSE, reply |-> <<>>,
     result |-> NoAnalysis]

\* The value add_message returns for None.
NoneRow == [id |-> 0]

\* A coroutine that is not running.  msg: the message it works on; analysis,
\* title: the locals of the same names; sel: the row its session loaded;
\* cur: current_content in edit_page; append: the parameter of edit_page,
\* which the pipeline leaves at its default; message: what add_message
\* returned; marked: what mark_message_as_processed returned; out:
\* event.message.out of the event a handler was started for.
Idle ==
    [pc |-> "idle", msg |-> 0, analysis |-> NoAnalysis, title |-> NULL,
     sel |-> 0, cur |-> <<>>, append |-> TRUE, message |-> NoneRow,
     marked |-> "unset", out |-> FALSE]

\* The locals of the scan as setup() initialises them, and the history of
\* the run: visits, how often each message came in a page; analysed, the
\* messages the scan gave to analyze_text; stop, which break ended the loop.
\* site: whether wiki_client.site is set (it stays None when WikiClient.setup
\* could not build it).
InitScan ==
    [offset_id |-> 0, page |-> <<>>, i |-> 0, processed_messages |-> {},
     total_processed |-> 0, total_skipped |-> 0,
     visits |-> [m \in Msgs |-> 0], analysed |-> {}, stop |-> "none",
     site |-> TRUE]

\* The handles main() releases in its finally block: the engine of the
\* Database, the aiohttp session of the OllamaClient and the mwclient.Site of
\* the WikiClient.
Resources == {"db", "ollama", "wiki"}

\* No handle has been acquired.
NoResources == [r \in Resources |-> "none"]

Init ==
    /\ chat \in [Msgs -> Texts]
    /\ messages = <<>>
    /\ wiki = [t \in Titles |-> <<>>]
    /\ tasks = [t \in TaskIds |-> Idle]
    /\ scan = InitScan
    /\ runs = 0
    /\ delivered = 0
    /\ faults = 0
    /\ writes = [m \in Msgs |-> 0]
    /\ probe = NoProbe
    /\ resources = NoResources
    /\ saved = {}

\* The process is running.
Up == tasks[Backfill].pc # "idle"

(* ---------------------------- ledger ----------------------------------- *)

\* select(Message).filter_by(message_id=message_id): the matching rows.
Select(message_id) ==
    {k \in 1..Len(messages) : messages[k].message_id = message_id}

\* The row add_message builds: is_processed and wiki_page take their column
\* defaults.
NewRow(m, text, analysis) ==
    [id |-> Len(messages) + 1, message_id |-> m, chat_id |-> "group",
     user_id |-> SenderOf(m), text |-> text, date |-> DateOf(m),
     is_processed |-> FALSE, wiki_page |-> NULL,
     analysis |-> JsonDumps(analysis)]

\* isProcessed(messageId) on the table.
IsProcessed(m) ==
    \E k \in 1..Len(messages) :
        messages[k].message_id = m /\ messages[k].is_processed

\* Mutant of get_processed_messages: the ids of all rows.
get_all_messages == {messages[k].message_id : k \in 1..Len(messages)}

\* Database.get_processed_messages: the ids of the processed rows.
get_processed_messages ==
    {messages[k].message_id : k \in {j \in 1..Len(messages) : messages[j].is_processed}}

(* ---------------------------- chat platform ---------------------------- *)

\* Mutant of get_messages: the message with the id offset_id is returned too.
get_messages_inclusive(offset_id) ==
    LET top == IF offset_id = 0 THEN NumMsgs ELSE offset_id
        n == IF top < limit THEN top ELSE limit
    IN  [k \in 1..n |-> top - k + 1]

\* client.get_messages(limit, offset_id): the newest `limit` messages with an
\* id below offset_id (all of them for offset_id = 0), newest first.
get_messages(offset_id) ==
    LET top == IF offset_id = 0 THEN NumMsgs ELSE offset_id - 1
        n == IF top < limit THEN top ELSE limit
    IN  [k \in 1..n |-> top - k + 1]

(* ---------------------------- history scan ----------------------------- *)

\* `for message in messages:` from index i on, up to the next message that is
\* sent to analysis or to the end of the page: empty messages are passed
\* over, ids in processed_messages are counted as skipped.
RECURSIVE ScanFrom(_, _)
ScanFrom(sc, i) ==
    IF i > Len(sc.page) THEN [sc EXCEPT !.i = i]
    ELSE LET m == sc.page[i] IN
         IF chat[m] = "" THEN ScanFrom(sc, i + 1)
         ELSE IF m \notin sc.processed_messages THEN [sc EXCEPT !.i = i]
         ELSE ScanFrom([sc EXCEPT !.total_skipped = @ + 1], i + 1)

\* Mutant of LoopFrom: the cursor becomes the id of the first message of the
\* page.
LoopFromFirst(sc, i) ==
    LET s == ScanFrom(sc, i) IN
    IF s.i > Len(s.page)
    THEN [task |-> [Idle EXCEPT !.pc = "get_messages"],
          scan |-> [s EXCEPT !.offset_id = s.page[1]]]
    ELSE [task |-> [Idle EXCEPT !.pc = "analyze", !.msg = s.page[s.i]],
          scan |-> [s EXCEPT !.analysed = @ \cup {s.page[s.i]}]]

\* The scan goes on from index i of the page: either the next message goes to
\* analyze_text, or the page is done, offset_id becomes the id of its last
\* message and the next page is requested.
LoopFrom(sc, i) ==
    LET s == ScanFrom(sc, i) IN
    IF s.i > Len(s.page)
    THEN [task |-> [Idle EXCEPT !.pc = "get_messages"],
          scan |-> [s EXCEPT !.offset_id = s.page[Len(s.page)]]]
    ELSE [task |-> [Idle EXCEPT !.pc = "analyze", !.msg = s.page[s.i]],
          scan |-> [s EXCEPT !.analysed = @ \cup {s.page[s.i]}]]

(* ---------------------------- continuations ---------------------------- *)
(* What a coroutine does, without suspending, after an awaited call gave   *)
(* its result: the new locals of task t and of the scan.                   *)

\* A handle_message task has returned; the message it was for, what
\* analyze_text and its ledger calls returned and the title it built stay
\* visible.
Returned(task) ==
    [Idle EXCEPT !.pc = "done", !.msg = task.msg, !.message = task.message,
                 !.analysis = task.analysis, !.title = task.title,
                 !.marked = task.marked]

\* edit_page up to its first awaited call: `page = site.pages[title]`, then
\* create_page's page.save when the page does not exist, page.text otherwise.
edit_page(title) == IF wiki[title] = <<>> THEN "create_save" ELSE "edit_read"

\* Mutant of EditReturned: what edit_page returned is not looked at.
EditReturnedUnchecked(t, task, ok) ==
    [task |-> [task EXCEPT !.cur = <<>>, !.pc = "mark_select"], scan |-> scan]

\* After `await edit_page(title, content)` returned ok to the task with the
\* given locals.
EditReturned(t, task, ok) ==
    IF ok
    THEN [task |-> [task EXCEPT !.cur = <<>>, !.pc = "mark_select"],
          scan |-> scan]
    ELSE IF t = Backfill
    THEN [task |-> [task EXCEPT !.cur = <<>>, !.pc = "add_select"],
          scan |-> scan]
    ELSE [task |-> Returned(task), scan |-> scan]

\* Mutant of AfterAnalyze: the result is not tested before it is used.
AfterAnalyzeUnchecked(t, a) ==
    LET title == TitleOf(a, tasks[t].msg)
        task == [tasks[t] EXCEPT !.analysis = a, !.title = title]
    IN  IF scan.site
        THEN [task |-> [task EXCEPT !.pc = edit_page(title)], scan |-> scan]
        ELSE EditReturned(t, task, FALSE)

\* Mutant of AfterAnalyze: a falsy result ends the scan.
AfterAnalyzeAborting(t, a) ==
    IF ~Truthy(a)
    THEN IF t = Backfill
         THEN [task |-> [Idle EXCEPT !.pc = "done"],
               scan |-> [scan EXCEPT !.stop = "error"]]
         ELSE [task |-> Returned([tasks[t] EXCEPT !.analysis = a]), scan |-> scan]
    ELSE LET title == TitleOf(a, tasks[t].msg)
             task == [tasks[t] EXCEPT !.analysis = a, !.title = title]
         IN  IF scan.site
             THEN [task |-> [task EXCEPT !.pc = edit_page(title)], scan |-> scan]
             ELSE EditReturned(t, task, FALSE)

\* After `analysis = await analyze_text(text)`.  A falsy result ends the
\* message.  Otherwise the title and the content are built and edit_page runs
\* up to its first awaited call: page = site.pages[title], page.exists, then
\* create_page's page.save or page.text.  With no site, edit_page raises
\* its ValueError, catches it and returns False at once.
AfterAnalyze(t, a) ==
    IF ~Truthy(a)
    THEN IF t = Backfill THEN LoopFrom(scan, scan.i + 1)
         ELSE [task |-> Returned([tasks[t] EXCEPT !.analysis = a]), scan |-> scan]
    ELSE LET title == TitleOf(a, tasks[t].msg)
             task == [tasks[t] EXCEPT !.analysis = a, !.title = title]
         IN  IF scan.site
             THEN [task |-> [task EXCEPT !.pc = edit_page(title)], scan |-> scan]
             ELSE EditReturned(t, task, FALSE)

\* Mutant of AfterEdit: the caller goes on as if edit_page had returned True.
AfterEditTakenForTrue(t, ok) == EditReturned(t, tasks[t], TRUE)

\* After `await edit_page(title, content)` returned ok.
AfterEdit(t, ok) == EditReturned(t, tasks[t], ok)

\* After `await mark_message_as_processed(id, title)` returned ret.  Neither
\* caller looks at ret; the scan counts the message as processed.
AfterMark(t, ret) ==
    IF t = Backfill
    THEN [task |-> [tasks[t] EXCEPT !.marked = ret, !.sel = 0,
                                    !.pc = "add_select"],
          scan |-> [scan EXCEPT !.total_processed = @ + 1]]
    ELSE [task |-> Returned([tasks[t] EXCEPT !.marked = ret]), scan |-> scan]

\* After `await add_message(...)` returned row.  The scan goes to the next
\* message; handle_message returns on None and goes to analyze_text otherwise.
AfterAdd(t, row) ==
    IF t = Backfill THEN LoopFrom(scan, scan.i + 1)
    ELSE IF row = NoneRow
    THEN [task |-> Returned([tasks[t] EXCEPT !.message = row]), scan |-> scan]
    ELSE [task |-> [tasks[t] EXCEPT !.message = row, !.pc = "analyze"],
          scan |-> scan]

\* Task t takes the step r.
Resume(t, r) ==
    /\ tasks' = [tasks EXCEPT ![t] = r.task]
    /\ scan' = r.scan

(* ---------------------------- process ---------------------------------- *)

\* How the steps of setup() go: all well, or one of them fails: step 1,
\* Database.setup; steps 3 and 4, the environment, the session file, the
\* connection and the authorisation of the Telegram client; step 5,
\* WikiClient.setup at mwclient.Site or at site.login; step 6,
\* OllamaClient.setup.
SetupOutcomes == {"ok", "db", "telegram", "wiki_site", "wiki_login", "ollama"}

\* The failures that raise out of setup(): main logs the error, runs its
\* finally block and ends.  Database.setup and WikiClient.setup catch their
\* errors and return False, and setup() does not look at what they return.
Fatal == {"telegram", "ollama"}

\* The handles after setup() went as outcome.  Step 1 builds the Database
\* with its engine; step 4 raises before the other two clients are built;
\* step 5 keeps the Site once mwclient.Site returned, whether login failed or
\* not; step 6 opens the aiohttp session, and OllamaClient.setup closes it
\* again before it re-raises.
Acquired(outcome) ==
    [r \in Resources |->
        CASE r = "db" -> "open"
          [] r = "wiki" ->
                IF outcome \in {"telegram", "wiki_site"} THEN "none" ELSE "open"
          [] r = "ollama" ->
                IF outcome = "telegram" THEN "none"
                ELSE IF outcome = "ollama" THEN "closed" ELSE "open"]

\* main()'s finally block: db.close() and ollama_client.close() when the
\* clients were built; wiki_client.close() only `if hasattr(wiki_client,
\* 'close')`, and WikiClient has no such method.
Finally(res) ==
    [r \in Resources |->
        IF r \in {"db", "ollama"} /\ res[r] = "open" THEN "closed" ELSE res[r]]

\* main() builds the client and setup() runs through its steps to its first
\* page request, or to the exception that ends the process.
Start(outcome) ==
    /\ ~Up
    /\ runs < MaxRuns
    /\ runs' = runs + 1
    /\ outcome # "ok" => faults < MaxFaults
    /\ faults' = IF outcome = "ok" THEN faults ELSE faults + 1
    /\ IF outcome \in Fatal
       THEN /\ tasks' = tasks
            /\ scan' = InitScan
            /\ resources' = Finally(Acquired(outcome))
       ELSE /\ tasks' = [tasks EXCEPT
                            ![Backfill] = [Idle EXCEPT !.pc = "get_messages"]]
            /\ scan' = [InitScan EXCEPT !.site = (outcome # "wiki_site")]
            /\ resources' = Acquired(outcome)
    /\ UNCHANGED <<chat, probe, saved, messages, wiki, delivered, writes>>

\* setup() has returned (it returns None, so main does not wait for the
\* connection to end), main's finally block has run and the process is gone,
\* with every handler task still in flight.
Exit ==
    /\ tasks[Backfill].pc = "done"
    /\ tasks' = [t \in TaskIds |-> Idle]
    /\ scan' = InitScan
    /\ resources' = Finally(resources)
    /\ UNCHANGED <<chat, probe, saved, messages, wiki, runs, delivered, faults, writes>>

\* The process is killed at some await point: main() does not get to its
\* finally block and nothing of the process remains.
Crash ==
    /\ Up
    /\ faults < MaxFaults
    /\ faults' = faults + 1
    /\ tasks' = [t \in TaskIds |-> Idle]
    /\ scan' = InitScan
    /\ resources' = NoResources
    /\ UNCHANGED <<chat, probe, saved, messages, wiki, runs, delivered, writes>>

(* ---------------------------- history scan: pages ---------------------- *)

\* Mutant of GetMessages: a page shorter than limit ends the scan.
GetMessagesShortPageEnds ==
    /\ tasks[Backfill].pc = "get_messages"
    /\ LET page == get_messages(scan.offset_id) IN
       IF Len(page) < limit
       THEN /\ tasks' = [tasks EXCEPT ![Backfill].pc = "done"]
            /\ scan' = [scan EXCEPT !.stop = "empty"]
       ELSE /\ tasks' = [tasks EXCEPT ![Backfill].pc = "get_processed"]
            /\ scan' = [scan EXCEPT
                           !.page = page, !.i = 0,
                           !.visits = [m \in Msgs |->
                               IF \E j \in 1..Len(page) : page[j] = m
                               THEN @[m] + 1 ELSE @[m]]]
    /\ UNCHANGED <<chat, probe, resources, saved, messages, wiki, runs, delivered, faults, writes>>

\* `messages = await client.get_messages(...)` gave a page.  An empty page
\* ends the scan; otherwise the processed ids are requested.
GetMessages ==
    /\ tasks[Backfill].pc = "get_messages"
    /\ LET page == get_messages(scan.offset_id) IN
       IF page = <<>>
       THEN /\ tasks' = [tasks EXCEPT ![Backfill].pc = "done"]
            /\ scan' = [scan EXCEPT !.stop = "empty"]
       ELSE /\ tasks' = [tasks EXCEPT ![Backfill].pc = "get_processed"]
            /\ scan' = [scan EXCEPT
                           !.page = page, !.i = 0,
                           !.visits = [m \in Msgs |->
                               IF \E j \in 1..Len(page) : page[j] = m
                               THEN @[m] + 1 ELSE @[m]]]
    /\ UNCHANGED <<chat, probe, resources, saved, messages, wiki, runs, delivered, faults, writes>>

\* client.get_messages raised: the handler around the page breaks the loop.
GetMessagesFail ==
    /\ tasks[Backfill].pc = "get_messages"
    /\ faults < MaxFaults
    /\ faults' = faults + 1
    /\ tasks' = [tasks EXCEPT ![Backfill].pc = "done"]
    /\ scan' = [scan EXCEPT !.stop = "error"]
    /\ UNCHANGED <<chat, probe, resources, saved, messages, wiki, runs, delivered, writes>>

\* `processed_messages = await db.get_processed_messages()` gave the ids;
\* the loop over the page starts.
GetProcessedMessages ==
    /\ tasks[Backfill].pc = "get_processed"
    /\ Resume(Backfill,
              LoopFrom([scan EXCEPT !.processed_messages = get_processed_messages], 1))
    /\ UNCHANGED <<chat, probe, resources, saved, messages, wiki, runs, delivered, faults, writes>>

\* get_processed_messages caught a storage error and gave [].
GetProcessedMessagesFail ==
    /\ tasks[Backfill].pc = "get_processed"
    /\ faults < MaxFaults
    /\ faults' = faults + 1
    /\ Resume(Backfill, LoopFrom([scan EXCEPT !.processed_messages = {}], 1))
    /\ UNCHANGED <<chat, probe, resources, saved, messages, wiki, runs, delivered, writes>>

(* ---------------------------- live events ------------------------------ *)

\* Mutant of HandleMessage: event.message.out is not looked at.
HandleMessageUnfiltered(m, out) ==
    /\ Up
    /\ delivered < MaxLive
    /\ delivered' = delivered + 1
    /\ tasks' = [tasks EXCEPT ![delivered + 1] =
                    [Idle EXCEPT !.pc = "add_select", !.msg = m, !.out = out]]
    /\ UNCHANGED <<chat, probe, resources, saved, messages, wiki, scan, runs, faults, writes>>

\* A NewMessage event for message m arrives and handle_message starts as a
\* task of its own.  An outgoing message is dropped at once; otherwise the
\* handler runs to `await db.add_message(...)`.
HandleMessage(m, out) ==
    /\ Up
    /\ delivered < MaxLive
    /\ delivered' = delivered + 1
    /\ tasks' = [tasks EXCEPT ![delivered + 1] =
                    IF out
                    THEN [Idle EXCEPT !.pc = "ignored", !.msg = m, !.out = TRUE]
                    ELSE [Idle EXCEPT !.pc = "add_select", !.msg = m]]
    /\ UNCHANGED <<chat, probe, resources, saved, messages, wiki, scan, runs, faults, writes>>

(* ---------------------------- analysis --------------------------------- *)

\* `await ollama_client.analyze_text(text)` gave a.
AnalyzeText(t, a) ==
    /\ tasks[t].pc = "analyze"
    /\ IsFault(a) => faults < MaxFaults
    /\ faults' = IF IsFault(a) THEN faults + 1 ELSE faults
    /\ Resume(t, AfterAnalyze(t, a))
    /\ UNCHANGED <<chat, probe, resources, saved, messages, wiki, runs, delivered, writes>>

(* ---------------------------- wiki ------------------------------------- *)

\* The content the caller of edit_page rendered for its message.
ContentOf(t) == Content(tasks[t].title, tasks[t].msg, chat[tasks[t].msg])

\* new_content in edit_page(append=True).
Appended(current_content, content) == current_content \o <<Sep>> \o <<content>>

\* Mutant of NewContent: the append parameter is not looked at.
NewContentAppendsAlways(append, current_content, content) ==
    Appended(current_content, content)

\* new_content in edit_page: the old text, the separator and the content in
\* append mode, the content alone otherwise.
NewContent(append, current_content, content) ==
    IF append THEN Appended(current_content, content) ELSE <<content>>

\* create_page: `await to_thread(page.save, content, ...)` saved the page;
\* edit_page returns True.
CreatePageSave(t) ==
    /\ tasks[t].pc = "create_save"
    /\ wiki' = [wiki EXCEPT ![tasks[t].title] = <<ContentOf(t)>>]
    /\ writes' = [writes EXCEPT ![tasks[t].msg] = @ + 1]
    /\ saved' = saved \cup {<<tasks[t].msg, tasks[t].title>>}
    /\ Resume(t, AfterEdit(t, TRUE))
    /\ UNCHANGED <<chat, probe, resources, messages, runs, delivered, faults>>

\* edit_page: `current_content = await to_thread(page.text)` read the page.
EditPageRead(t) ==
    /\ tasks[t].pc = "edit_read"
    /\ tasks' = [tasks EXCEPT ![t].cur = wiki[tasks[t].title], ![t].pc = "edit_save"]
    /\ UNCHANGED <<chat, probe, resources, saved, messages, wiki, scan, runs, delivered, faults, writes>>

\* edit_page: `await to_thread(page.save, new_content, ...)` saved the page;
\* edit_page returns True.
EditPageSave(t) ==
    /\ tasks[t].pc = "edit_save"
    /\ wiki' = [wiki EXCEPT ![tasks[t].title] =
                    NewContent(tasks[t].append, tasks[t].cur, ContentOf(t))]
    /\ writes' = [writes EXCEPT ![tasks[t].msg] = @ + 1]
    /\ saved' = saved \cup {<<tasks[t].msg, tasks[t].title>>}
    /\ Resume(t, AfterEdit(t, TRUE))
    /\ UNCHANGED <<chat, probe, resources, messages, runs, delivered, faults>>

\* A wiki call of edit_page or create_page raised: nothing is saved and
\* edit_page returns False.
EditPageFail(t) ==
    /\ tasks[t].pc \in {"create_save", "edit_read", "edit_save"}
    /\ faults < MaxFaults
    /\ faults' = faults + 1
    /\ Resume(t, AfterEdit(t, FALSE))
    /\ UNCHANGED <<chat, probe, resources, saved, messages, wiki, runs, delivered, writes>>

(* ---------------------------- ledger calls ----------------------------- *)

\* Mutant of UniqueViolation: the column is not declared unique.
NoUniqueConstraint(m) == FALSE

\* unique=True on messages.message_id: an INSERT of a second row with the
\* id fails at commit.
UniqueViolation(m) == Select(m) # {}

\* Mutant of MarkedRow: the flag is set and the page name is forgotten.
MarkedRowNoPage(row, wiki_page) == [row EXCEPT !.is_processed = TRUE]

\* The row after `message.is_processed = True; message.wiki_page = wiki_page`.
MarkedRow(row, wiki_page) ==
    [row EXCEPT !.is_processed = TRUE, !.wiki_page = wiki_page]

\* The analysis argument of add_message: the scan passes its analysis,
\* handle_message leaves the default None.
AnalysisArg(t) == IF t = Backfill THEN tasks[t].analysis ELSE NoAnalysis

\* Mutant of AddSelect: an existing row gets the analysis of this call.
AddSelectRefresh(t) ==
    /\ tasks[t].pc = "add_select"
    /\ LET rows == Select(tasks[t].msg) IN
       IF rows = {}
       THEN /\ tasks' = [tasks EXCEPT ![t].pc = "add_commit"]
            /\ scan' = scan
            /\ messages' = messages
       ELSE LET k == CHOOSE j \in rows : TRUE
                row == [messages[k] EXCEPT !.analysis = JsonDumps(AnalysisArg(t))]
            IN  /\ messages' = [messages EXCEPT ![k] = row]
                /\ Resume(t, AfterAdd(t, row))
    /\ UNCHANGED <<chat, probe, resources, saved, wiki, runs, delivered, faults, writes>>

\* Mutant of AddSelect: an existing row is replaced by a freshly built one
\* (an upsert), which puts the column defaults back.
AddSelectUpsert(t) ==
    /\ tasks[t].pc = "add_select"
    /\ LET rows == Select(tasks[t].msg) IN
       IF rows = {}
       THEN /\ tasks' = [tasks EXCEPT ![t].pc = "add_commit"]
            /\ scan' = scan
            /\ messages' = messages
       ELSE LET k == CHOOSE j \in rows : TRUE
                row == [NewRow(tasks[t].msg, chat[tasks[t].msg], AnalysisArg(t))
                            EXCEPT !.id = k]
            IN  /\ messages' = [messages EXCEPT ![k] = row]
                /\ Resume(t, AfterAdd(t, row))
    /\ UNCHANGED <<chat, probe, resources, saved, wiki, runs, delivered, faults, writes>>

\* add_message: the SELECT by message_id came back.  An existing row is
\* returned as it is; with no row the new one is added and the commit awaited.
\* (scalar_one_or_none raises on several rows, and add_message returns None.)
AddSelect(t) ==
    /\ tasks[t].pc = "add_select"
    /\ LET rows == Select(tasks[t].msg) IN
       IF rows = {}
       THEN /\ tasks' = [tasks EXCEPT ![t].pc = "add_commit"]
            /\ scan' = scan
       ELSE IF Cardinality(rows) = 1
       THEN Resume(t, AfterAdd(t, messages[CHOOSE k \in rows : TRUE]))
       ELSE Resume(t, AfterAdd(t, NoneRow))
    /\ UNCHANGED <<chat, probe, resources, saved, messages, wiki, runs, delivered, faults, writes>>

\* add_message: `await session.commit()` ended.  The INSERT fails on the
\* unique column when a row with the id got in meanwhile, and add_message
\* returns None; otherwise the row is in the table and is returned.
AddCommit(t) ==
    /\ tasks[t].pc = "add_commit"
    /\ IF UniqueViolation(tasks[t].msg)
       THEN /\ messages' = messages
            /\ Resume(t, AfterAdd(t, NoneRow))
       ELSE LET row == NewRow(tasks[t].msg, chat[tasks[t].msg], AnalysisArg(t)) IN
            /\ messages' = Append(messages, row)
            /\ Resume(t, AfterAdd(t, row))
    /\ UNCHANGED <<chat, probe, resources, saved, wiki, runs, delivered, faults, writes>>

\* Mutant of MarkSelect: with no row for the id, a processed row is inserted.
MarkSelectUpsert(t) ==
    /\ tasks[t].pc = "mark_select"
    /\ LET rows == Select(tasks[t].msg) IN
       IF Cardinality(rows) = 1
       THEN /\ tasks' = [tasks EXCEPT ![t].sel = CHOOSE k \in rows : TRUE,
                                      ![t].pc = "mark_commit"]
            /\ scan' = scan
            /\ messages' = messages
       ELSE /\ messages' = Append(messages,
                   MarkedRow(NewRow(tasks[t].msg, chat[tasks[t].msg], NoAnalysis),
                             tasks[t].title))
            /\ Resume(t, AfterMark(t, "True"))
    /\ UNCHANGED <<chat, probe, resources, saved, wiki, runs, delivered, faults, writes>>

\* mark_message_as_processed: the SELECT by message_id came back.  With no
\* row it returns False; otherwise the two columns are set on the loaded row
\* and the commit awaited.
MarkSelect(t) ==
    /\ tasks[t].pc = "mark_select"
    /\ LET rows == Select(tasks[t].msg) IN
       IF Cardinality(rows) = 1
       THEN /\ tasks' = [tasks EXCEPT ![t].sel = CHOOSE k \in rows : TRUE,
                                      ![t].pc = "mark_commit"]
            /\ scan' = scan
       ELSE Resume(t, AfterMark(t, "False"))
    /\ UNCHANGED <<chat, probe, resources, saved, messages, wiki, runs, delivered, faults, writes>>

\* mark_message_as_processed: `await session.commit()` ended; the UPDATE of
\* the loaded row is in the table and the call returns True.
MarkCommit(t) ==
    /\ tasks[t].pc = "mark_commit"
    /\ messages' = [messages EXCEPT
                       ![tasks[t].sel] = MarkedRow(@, tasks[t].title)]
    /\ Resume(t, AfterMark(t, "True"))
    /\ UNCHANGED <<chat, probe, resources, saved, wiki, runs, delivered, faults, writes>>

\* A ledger call caught a storage error: add_message returns None,
\* mark_message_as_processed returns False, nothing is committed.
StorageError(t) ==
    /\ tasks[t].pc \in {"add_select", "add_commit", "mark_select", "mark_commit"}
    /\ faults < MaxFaults
    /\ faults' = faults + 1
    /\ IF tasks[t].pc \in {"add_select", "add_commit"}
       THEN Resume(t, AfterAdd(t, NoneRow))
       ELSE Resume(t, AfterMark(t, "False"))
    /\ UNCHANGED <<chat, probe, resources, saved, messages, wiki, runs, delivered, writes>>

(* ---------------------------- specification ---------------------------- *)

Next ==
    \/ \E outcome \in SetupOutcomes : Start(outcome)
    \/ Exit
    \/ Crash
    \/ GetMessages
    \/ GetMessagesFail
    \/ GetProcessedMessages
    \/ GetProcessedMessagesFail
    \/ \E m \in Msgs, out \in BOOLEAN : HandleMessage(m, out)
    \/ \E t \in TaskIds, a \in AnalysisResults : AnalyzeText(t, a)
    \/ \E t \in TaskIds : CreatePageSave(t)
    \/ \E t \in TaskIds : EditPageRead(t)
    \/ \E t \in TaskIds : EditPageSave(t)
    \/ \E t \in TaskIds : EditPageFail(t)
    \/ \E t \in TaskIds : AddSelect(t)
    \/ \E t \in TaskIds : AddCommit(t)
    \/ \E t \in TaskIds : MarkSelect(t)
    \/ \E t \in TaskIds : MarkCommit(t)
    \/ \E t \in TaskIds : StorageError(t)

Spec == Init /\ [][Next]_vars

(* ---------------------------- the history scan alone ------------------- *)

\* The process with no live event: setup() and its scan are the only
\* coroutine, over restarts.
NextScan ==
    \/ \E outcome \in SetupOutcomes : Start(outcome)
    \/ Exit
    \/ Crash
    \/ GetMessages
    \/ GetMessagesFail
    \/ GetProcessedMessages
    \/ GetProcessedMessagesFail
    \/ \E a \in AnalysisResults : AnalyzeText(Backfill, a)
    \/ CreatePageSave(Backfill)
    \/ EditPageRead(Backfill)
    \/ EditPageSave(Backfill)
    \/ EditPageFail(Backfill)
    \/ AddSelect(Backfill)
    \/ AddCommit(Backfill)
    \/ MarkSelect(Backfill)
    \/ MarkCommit(Backfill)
    \/ StorageError(Backfill)

\* A step of the running process that moves the history scan.
ScanStep == Up /\ NextScan /\ tasks'[Backfill] # tasks[Backfill]

\* The scan is never left waiting for ever: every call it awaits returns and
\* the event loop resumes the coroutine.
SpecFair == Init /\ [][NextScan]_vars /\ WF_vars(ScanStep)

(* ---------------------------- edit_page called directly ---------------- *)

\* The number of page.save calls that saved, for the messages 1..n.
RECURSIVE Saved(_)
Saved(n) == IF n = 0 THEN 0 ELSE writes[n] + Saved(n - 1)

\* A caller with no call in flight calls wiki_client.edit_page(title,
\* content, append) with the content rendered for message m; the call runs to
\* its first awaited wiki call.  The stage after a call that returned True is
\* "mark_select", after one that returned False "done".
CallEditPage(t, m, title, append) ==
    /\ tasks[t].pc \in {"idle", "mark_select", "done"}
    /\ Saved(NumMsgs) < MaxEdits
    /\ tasks' = [tasks EXCEPT ![t] =
                    [Idle EXCEPT !.msg = m, !.title = title, !.append = append,
                                 !.pc = edit_page(title)]]
    /\ UNCHANGED <<chat, probe, resources, saved, messages, wiki, scan, runs, delivered, faults, writes>>

NextEdit ==
    \/ \E t \in Handlers, m \in Msgs, title \in Titles, append \in BOOLEAN :
           CallEditPage(t, m, title, append)
    \/ \E t \in Handlers : CreatePageSave(t)
    \/ \E t \in Handlers : EditPageRead(t)
    \/ \E t \in Handlers : EditPageSave(t)
    \/ \E t \in Handlers : EditPageFail(t)

\* wiki_client.edit_page under calls with any title, content and mode.
SpecEdit == Init /\ [][NextEdit]_vars

(* ---------------------------- analyze_text called directly ------------- *)

\* A caller calls ollama_client.analyze_text(text): the call builds the prompt
\* and runs to `await self.session.post(...)`, the request is on its way.
AnalyzePost ==
    /\ probe.state = "called"
    /\ probe' = [probe EXCEPT !.state = "posted", !.sent = TRUE]
    /\ UNCHANGED <<chat, messages, wiki, tasks, scan, runs, delivered, faults,
                   writes, resources, saved>>

\* The POST ended with the given reply and analyze_text returns.
AnalyzeReturn(reply) ==
    /\ probe.state = "posted"
    /\ probe' = [probe EXCEPT !.state = "returned", !.reply = reply,
                              !.result = analyze_text(reply)]
    /\ UNCHANGED <<chat, messages, wiki, tasks, scan, runs, delivered, faults,
                   writes, resources, saved>>

InitAnalyze ==
    /\ chat = [m \in Msgs |-> "hello"]
    /\ messages = <<>>
    /\ wiki = [t \in Titles |-> <<>>]
    /\ tasks = [t \in TaskIds |-> Idle]
    /\ scan = InitScan
    /\ runs = 0
    /\ delivered = 0
    /\ faults = 0
    /\ writes = [m \in Msgs |-> 0]
    /\ probe \in {[NoProbe EXCEPT !.state = "called", !.text = text] :
                     text \in CallTexts}
    /\ resources = NoResources
    /\ saved = {}

NextAnalyze ==
    \/ AnalyzePost
    \/ \E reply \in Replies : AnalyzeReturn(reply)

\* ollama_client.analyze_text under calls with any text and any reply.
SpecAnalyze == InitAnalyze /\ [][NextAnalyze]_vars

(* ---------------------------- claims ----------------------------------- *)

\* The rows of the ledger.
Rows == 1..Len(messages)

\* The content of message m is in the page of the given title.
Published(m, title) ==
    \E j \in 1..Len(wiki[title]) :
        wiki[title][j].kind = "content" /\ wiki[title][j].id = m

\* C1: in an execution where no call fails (here: one with no live event, the
\* history being scanned again after each restart), every message id causes
\* at most one saving page.save call.
C1_AtMostOneWrite ==
    (faults = 0 /\ delivered = 0) => \A m \in Msgs : writes[m] <= 1

\* C2: a message whose ledger record is processed when the pipeline observes
\* it is not sent to analysis: the scan never analyses an id of its
\* processed_messages, and handle_message never goes on to analyze_text with
\* a record that add_message returned as processed (no call failing).
C2_ProcessedIsSkipped ==
    faults = 0 =>
        /\ tasks[Backfill].pc = "analyze" =>
               tasks[Backfill].msg \notin scan.processed_messages
        /\ \A t \in Handlers :
               tasks[t].pc = "analyze" => ~tasks[t].message.is_processed

\* C3: within one run, a message id that is delivered once by a live event
\* and visited once by the scan is saved to the wiki at most once, whatever
\* the interleaving (no call failing).
C3_LiveAndScanWriteOnce ==
    (runs = 1 /\ delivered <= 1 /\ faults = 0) => \A m \in Msgs : writes[m] <= 1

\* C4: when the first scan of a fresh ledger has ended with no call failing
\* and no live event, every message with text is processed in the ledger,
\* with the title its content was written under as publicationKey.
C4_ScanRoundTrip ==
    (runs = 1 /\ delivered = 0 /\ faults = 0 /\ tasks[Backfill].pc = "done") =>
        \A m \in Msgs :
            chat[m] # "" =>
                \E k \in Rows :
                    /\ messages[k].message_id = m
                    /\ messages[k].is_processed
                    /\ messages[k].wiki_page \in Titles
                    /\ Published(m, messages[k].wiki_page)

\* C5: add_message calls for one id that run concurrently, interleaved between
\* the existence check and the commit, leave exactly one record for the id:
\* never two, and one once a call for it has returned a record.
C5_OneRecordPerId ==
    /\ \A m \in Msgs : Cardinality(Select(m)) <= 1
    /\ \A t \in Handlers :
           tasks[t].message # NoneRow => Cardinality(Select(tasks[t].msg)) = 1

\* C5 witness: a handler's add_message found no row, lost the race to the
\* scan's add_message for the same id and got None from the failed commit.
C5_Witness ==
    \E t \in Handlers :
        /\ tasks[t].pc = "done"
        /\ tasks[t].message = NoneRow
        /\ tasks[t].marked = "unset"
        /\ faults = 0
        /\ Cardinality(Select(tasks[t].msg)) = 1

\* The step is one in which a ledger call of task t, waiting at pc, returns
\* to its caller or goes on to its commit.
Leaves(t, pc) ==
    /\ tasks[t].pc = pc
    /\ tasks'[t].pc \notin {pc, "idle"}

\* C6: add_message for an id that is in the ledger changes no row and adds
\* none, and gives handle_message the row that is there, as it is stored; the
\* call that created the row returned it as it is stored too, so two calls in
\* sequence give the same record.
C6_AddExistingIsNoOp ==
    [][\A t \in TaskIds :
          /\ (Leaves(t, "add_select") /\ Select(tasks[t].msg) # {}) =>
                 /\ messages' = messages
                 /\ (t \in Handlers /\ tasks'[t].pc = "analyze") =>
                        \E k \in Select(tasks[t].msg) :
                            tasks'[t].message = messages[k]
          /\ (Leaves(t, "add_commit") /\ t \in Handlers /\ tasks'[t].pc = "analyze") =>
                 /\ Len(messages') = Len(messages) + 1
                 /\ tasks'[t].message = messages'[Len(messages')]
                 /\ SubSeq(messages', 1, Len(messages)) = messages]_vars

\* C6 witness: add_message gave a handler a row that was there before the
\* call, processed and with its wiki page.
C6_Witness ==
    \E t \in Handlers :
        /\ tasks[t].pc = "analyze"
        /\ tasks[t].message.is_processed
        /\ tasks[t].message.wiki_page \in Titles
        /\ \E k \in Rows : messages[k] = tasks[t].message

\* C7: in every ledger state a row has a wiki_page exactly if it is
\* processed, and no two rows have the same message_id.
C7_LedgerInvariant ==
    /\ \A k \in Rows : (messages[k].wiki_page # NULL) <=> messages[k].is_processed
    /\ \A j, k \in Rows :
           messages[j].message_id = messages[k].message_id => j = k

\* C7 witness: the ledger holds a processed row and an unprocessed one.
C7_Witness ==
    \E j, k \in Rows :
        /\ messages[j].is_processed /\ messages[j].wiki_page \in Titles
        /\ ~messages[k].is_processed /\ messages[k].wiki_page = NULL

\* C8: no step sets the processed flag of a row back to false.
C8_ProcessedIsStable ==
    [][\A k \in Rows :
          messages[k].is_processed =>
              /\ k \in 1..Len(messages')
              /\ messages'[k].is_processed]_vars

\* C8 witness: in the second run, the scan and a handler have both marked the
\* same row, so one of the two calls acted on a processed row.
C8_Witness ==
    \E t \in Handlers :
        /\ runs = 2
        /\ tasks[t].marked = "True"
        /\ tasks[Backfill].marked = "True"
        /\ tasks[Backfill].msg = tasks[t].msg
        /\ IsProcessed(tasks[t].msg)

\* C9: mark_message_as_processed on a row that is processed with another
\* wiki_page returns False and leaves the row's wiki_page as it is.
C9_MarkKeepsOtherKey ==
    [][\A t \in TaskIds :
          (/\ Leaves(t, "mark_commit")
           /\ messages[tasks[t].sel].is_processed
           /\ messages[tasks[t].sel].wiki_page # tasks[t].title) =>
              /\ tasks'[t].marked = "False"
              /\ messages'[tasks[t].sel].wiki_page = messages[tasks[t].sel].wiki_page]_vars

\* C10: mark_message_as_processed for an id with no row returns False and
\* leaves the table as it is.
C10_MarkMissingIsNoOp ==
    [][\A t \in TaskIds :
          (Leaves(t, "mark_select") /\ Select(tasks[t].msg) = {}) =>
              /\ tasks'[t].marked = "False"
              /\ messages' = messages]_vars

\* C10 witness: the scan's mark_message_as_processed returned False for a
\* message that has no row, with no call failing.
C10_Witness ==
    /\ tasks[Backfill].pc = "add_select"
    /\ tasks[Backfill].marked = "False"
    /\ faults = 0
    /\ Select(tasks[Backfill].msg) = {}

\* C11: a message with empty text gets no ledger row and is never given to
\* analyze_text, whether the scan visits it or a live event brings it.
C11_EmptyTextIsDropped ==
    /\ \A k \in Rows : messages[k].text # ""
    /\ \A t \in TaskIds : tasks[t].pc = "analyze" => chat[tasks[t].msg] # ""

\* The stages of a task in which edit_page runs for its message.
Publishing == {"create_save", "edit_read", "edit_save"}

\* C12: when analyze_text returned, for a message with text, a result with no
\* title field, one with no field at all included, edit_page is called with the
\* fallback title (the code's word for "Message", "_" and the id), and when
\* edit_page returned True the content is in the page of that title.
C12_NoTitleIsPublished ==
    \A t \in TaskIds :
        (/\ ~tasks[t].analysis.isNone
         /\ "title" \notin tasks[t].analysis.keys
         /\ chat[tasks[t].msg] # "") =>
            /\ tasks[t].pc \in Publishing =>
                   tasks[t].title = FallbackTitle(tasks[t].msg)
            /\ (t \in Handlers /\ tasks[t].pc = "done") =>
                   /\ tasks[t].title = FallbackTitle(tasks[t].msg)
                   /\ tasks[t].marked # "unset" =>
                          Published(tasks[t].msg, FallbackTitle(tasks[t].msg))

\* C13: an edit_page call that saves leaves the page as follows.  A page that
\* did not exist holds the content alone (create_page).  A page that existed,
\* and that no other call changed since this call read it, holds in append
\* mode its old text, the separator and the content, and in overwrite mode
\* the content alone.
C13_EditPageBody ==
    [][\A t \in Handlers :
          LET title == tasks[t].title
              body == ContentOf(t)
              oldBody == wiki[title]
          IN  tasks'[t].pc = "mark_select" =>
                  /\ tasks[t].pc = "create_save" => wiki'[title] = <<body>>
                  /\ (tasks[t].pc = "edit_save" /\ oldBody = tasks[t].cur) =>
                         /\ oldBody # <<>>
                         /\ tasks[t].append =>
                                wiki'[title] = oldBody \o <<Sep, body>>
                         /\ ~tasks[t].append => wiki'[title] = <<body>>]_vars

\* C13 witness: the page "T" existed with the content of message 1 and an
\* overwriting call has left the content of message 2 alone in it; another
\* page was created with one content and then appended to.
C13_Witness ==
    \E t \in Handlers, title \in Titles :
        /\ tasks[t].pc = "mark_select"
        /\ ~tasks[t].append
        /\ tasks[t].title = "T"
        /\ tasks[t].msg = 2
        /\ wiki["T"] = <<ContentOf(t)>>
        /\ writes[1] = 2 /\ writes[2] = 2
        /\ title # "T"
        /\ Len(wiki[title]) = 3
        /\ wiki[title][1] = Content(title, 1, chat[1])
        /\ wiki[title][2] = Sep
        /\ wiki[title][3] = Content(title, 2, chat[2])
        /\ \A other \in Titles \ {"T", title} : wiki[other] = <<>>

\* The messages of the page the scan holds.
InPage == {scan.page[j] : j \in 1..Len(scan.page)}

\* The cursor and the pages of one run: when the next page is requested the
\* cursor is the id of the last message of the page before; the messages of
\* a page are older than every message that came in an earlier page; no
\* message comes twice.
CursorWalk ==
    /\ (tasks[Backfill].pc = "get_messages" /\ scan.page # <<>>) =>
           scan.offset_id = scan.page[Len(scan.page)]
    /\ \A m \in InPage, n \in Msgs \ InPage : scan.visits[n] >= 1 => m < n
    /\ \A m \in Msgs : scan.visits[m] <= 1

\* C14 as stated: the cursor walk, and when the run has ended every message
\* of the conversation was visited exactly once.
C14_EveryMessageVisitedOnce ==
    /\ CursorWalk
    /\ tasks[Backfill].pc = "done" => \A m \in Msgs : scan.visits[m] = 1

\* C14 amended: the cursor walk, and when the run has ended after an empty
\* page every message was visited exactly once; a run that a raising page
\* request ended has visited the messages down to the cursor, once each.
C14_VisitedOnceUnlessPageFails ==
    /\ CursorWalk
    /\ (tasks[Backfill].pc = "done" /\ scan.stop = "empty") =>
           \A m \in Msgs : scan.visits[m] = 1
    /\ (tasks[Backfill].pc = "done" /\ scan.stop = "error") =>
           \A m \in Msgs :
               scan.visits[m] =
                   IF scan.offset_id # 0 /\ m >= scan.offset_id THEN 1 ELSE 0

\* C14 witness: a run over more than one page has ended after the empty page.
C14_Witness ==
    /\ tasks[Backfill].pc = "done"
    /\ scan.stop = "empty"
    /\ scan.offset_id = 1
    /\ Len(scan.page) < NumMsgs
    /\ \A m \in Msgs : scan.visits[m] = 1

\* The reply is one of the failures C15 names: a transport exception, a
\* status other than 200, a response text with no "{" or no "}", or text
\* between the braces that is not JSON.
FailureReply(reply) ==
    \/ reply.raises
    \/ reply.status # 200
    \/ /\ reply.json
       /\ \/ Find(reply.response, "{") = -1
          \/ Find(reply.response, "}") = -1
          \/ Slice(reply.response, Find(reply.response, "{"),
                   RFind(reply.response, "}") + 1) \notin JsonObjects

\* C15: analyze_text never raises to its caller: it returns None or a parsed
\* object whatever the reply, and None for each of the failures named.
C15_AnalyzeNeverRaises ==
    probe.state = "returned" =>
        /\ probe.result # Raised
        /\ probe.result \in AnalysisResults
        /\ FailureReply(probe.reply) => probe.result = NoAnalysis

\* C15 witness: the POST raised and analyze_text returned None.
C15_Witness ==
    /\ probe.state = "returned"
    /\ probe.reply.raises
    /\ probe.result = NoAnalysis

\* C16: analyze_text called with an empty or whitespace-only text sends no
\* request and returns the error value.
C16_BlankTextIsNotSent ==
    probe.text \in {"", " "} =>
        /\ ~probe.sent
        /\ probe.state = "returned" => probe.result = NoAnalysis

\* The scan of this run has gone past message m: m came in an earlier page,
\* or earlier in the page the scan holds.
Passed(m) ==
    /\ scan.visits[m] >= 1
    /\ \/ m \notin InPage
       \/ \E j \in 1..Len(scan.page) : j < scan.i /\ scan.page[j] = m

\* C17: the scan goes past a message with text without giving it to
\* analyze_text only when its ledger row is processed.  So a message whose
\* page was written and whose mark_message_as_processed never committed,
\* because the process stopped in between, is analysed again by the next run
\* that reaches it and is not skipped.
C17_UnmarkedIsNotSkipped ==
    \A m \in Msgs :
        (Passed(m) /\ chat[m] # "" /\ m \notin scan.analysed) => IsProcessed(m)

\* C17 witness: the first run wrote the page of the newest message and was
\* killed before any ledger call for it committed and before the next
\* message was written; the second run has analysed the message again and
\* is in edit_page for it.
C17_Witness ==
    /\ runs = 2
    /\ faults = 1
    /\ delivered = 0
    /\ messages = <<>>
    /\ \A m \in Msgs : chat[m] # ""
    /\ writes = [m \in Msgs |-> IF m = NumMsgs THEN 1 ELSE 0]
    /\ tasks[Backfill].pc = "edit_read"
    /\ tasks[Backfill].msg = NumMsgs
    /\ NumMsgs \in scan.analysed

\* C18: no two messages are in the analysing or publishing stage at once: at
\* most one task is waiting for analyze_text or inside edit_page.
C18_OneMessageAtATime ==
    \A t, u \in TaskIds :
        (/\ tasks[t].pc \in {"analyze"} \cup Publishing
         /\ tasks[u].pc \in {"analyze"} \cup Publishing
         /\ tasks[t].msg # tasks[u].msg) => t = u

\* C19: a start in which Database.setup or the setup of a collaborator fails
\* is aborted: the process is down after it, no page is requested and no
\* message is analysed or published.
C19_FailedSetupAborts ==
    [][(runs' = runs + 1 /\ faults' = faults + 1) =>
           \A t \in TaskIds : tasks'[t].pc = "idle"]_vars

\* C20: once started, the process handles live events until the connection
\* ends: with no call failing and no kill, a handle_message task that is in
\* flight is never dropped, whether its event came during the scan or after.
C20_ListenerOutlivesScan ==
    [][(faults = 0 /\ faults' = 0) =>
           \A t \in Handlers :
               tasks[t].pc \notin {"idle", "done", "ignored"} =>
                   tasks'[t].pc # "idle"]_vars

\* C21: the handler of a live event for an outgoing message returns at once:
\* it is never at a ledger call, at analyze_text or in edit_page, so the
\* event causes no ledger write, no analysis call and no page write.
C21_OutgoingIsIgnored ==
    \A t \in Handlers : tasks[t].out => tasks[t].pc = "ignored"

\* C21 witness: an outgoing message with text and no ledger row was
\* delivered; nothing was stored or written for it.
C21_Witness ==
    \E t \in Handlers :
        /\ tasks[t].out
        /\ tasks[t].pc = "ignored"
        /\ chat[tasks[t].msg] # ""
        /\ Select(tasks[t].msg) = {}
        /\ writes[tasks[t].msg] = 0

\* The step is one in which analyze_text returns to task t a result its
\* caller takes for a failure (None, or an object with no field).
AnalysisFailed(t) ==
    /\ tasks[t].pc = "analyze"
    /\ tasks'[t] # tasks[t]
    /\ tasks'[Backfill].pc # "idle"
    /\ ~Truthy(tasks'[t].analysis)

\* C22: when analyze_text fails for a message, the caller is done with the
\* message in the same step: no page is written, the ledger stays as it is
\* (mark_message_as_processed is not called), the scan goes on to another
\* message without counting this one and handle_message returns.
C22_FailedAnalysisWritesNothing ==
    [][\A t \in TaskIds :
          AnalysisFailed(t) =>
              /\ wiki' = wiki
              /\ writes' = writes
              /\ messages' = messages
              /\ tasks'[t].pc \notin Publishing \cup {"mark_select", "mark_commit"}
              /\ t = Backfill =>
                     /\ tasks'[t].msg # tasks[t].msg
                     /\ scan'.total_processed = scan.total_processed
              /\ t \in Handlers =>
                     /\ tasks'[t].pc = "done"
                     /\ tasks'[t].marked = "unset"]_vars

\* C22 witness: analyze_text returned None to a handler; the row that its
\* add_message stored is unprocessed and no page was written for the message.
C22_Witness ==
    \E t \in Handlers :
        /\ tasks[t].pc = "done"
        /\ tasks[t].message # NoneRow
        /\ tasks[t].analysis = NoAnalysis
        /\ \E k \in Select(tasks[t].msg) : ~messages[k].is_processed
        /\ writes[tasks[t].msg] = 0

\* The step is one in which edit_page returns False to task t: a wiki call
\* raised, or there is no site.
EditFailed(t) ==
    /\ tasks'[t] # tasks[t]
    /\ tasks'[Backfill].pc # "idle"
    /\ \/ tasks[t].pc \in Publishing /\ faults' = faults + 1
       \/ tasks[t].pc = "analyze" /\ ~scan.site /\ Truthy(tasks'[t].analysis)

\* C23: when edit_page fails for a message nothing is saved, its caller does
\* not call mark_message_as_processed and the ledger stays as it is, so the
\* message is not made processed: the scan goes on to add_message without
\* counting it and handle_message returns.
C23_FailedWriteIsNotMarked ==
    [][\A t \in TaskIds :
          EditFailed(t) =>
              /\ wiki' = wiki
              /\ writes' = writes
              /\ messages' = messages
              /\ tasks'[t].marked = "unset"
              /\ t = Backfill =>
                     /\ tasks'[t].pc = "add_select"
                     /\ scan'.total_processed = scan.total_processed
              /\ t \in Handlers => tasks'[t].pc = "done"]_vars

\* C23 witness: edit_page returned False to the scan in the first run; the
\* second run has found the message unprocessed and analyses it again.
C23_Witness ==
    \E m \in Msgs :
        /\ runs = 2
        /\ faults = 1
        /\ delivered = 0
        /\ writes[m] = 0
        /\ \E k \in Select(m) : ~messages[k].is_processed /\ messages[k].analysis # NULL
        /\ tasks[Backfill].pc \in Publishing
        /\ tasks[Backfill].msg = m
        /\ scan.site

\* The caller of task t has reported its message as successfully processed:
\* the success log line, and the scan's `total_processed += 1`, follow the
\* return of mark_message_as_processed whatever it returned.
Reported(t) == tasks[t].marked # "unset"

\* C24: a message reported as successfully processed has a ledger row with
\* is_processed true, and no message is reported for which
\* mark_message_as_processed returned False; stated for runs in which no call
\* fails.
C24_ReportedIsProcessed ==
    faults = 0 =>
        \A t \in TaskIds :
            Reported(t) =>
                /\ tasks[t].marked = "True"
                /\ IsProcessed(tasks[t].msg)

\* The stages of a task in which one message is processed.
MessageStages ==
    {"analyze", "mark_select", "mark_commit", "add_select", "add_commit"}
        \cup Publishing

\* The step is one in which a call made for the message of task t fails.
MessageFailed(t) ==
    \/ EditFailed(t)
    \/ /\ tasks[t].pc \in MessageStages
       /\ faults' = faults + 1
       /\ tasks'[t] # tasks[t]
       /\ tasks'[Backfill].pc # "idle"

\* The messages of the page from index i up to index j - 1 are ones the loop
\* passes over: empty, or in processed_messages.
PassedOver(i, j) ==
    \A k \in i..(j - 1) :
        k <= Len(scan.page) =>
            \/ chat[scan.page[k]] = ""
            \/ scan.page[k] \in scan.processed_messages

\* C25: a failure in the processing of one message touches no other task and
\* does not end the process or the scan: the scan stays on the same page and
\* either goes on with this message or takes the next message of the page it
\* has to process, or, with the page done, requests the next page from the
\* last id of this one; a handler returns.
C25_FailureIsIsolated ==
    [][\A t \in TaskIds :
          MessageFailed(t) =>
              /\ \A u \in TaskIds \ {t} : tasks'[u] = tasks[u]
              /\ delivered' = delivered
              /\ runs' = runs
              /\ t \in Handlers => scan' = scan /\ tasks'[t].pc = "done"
              /\ t = Backfill =>
                     /\ scan'.stop = "none"
                     /\ scan'.page = scan.page
                     /\ \/ /\ scan'.i = scan.i
                           /\ tasks'[t].msg = tasks[t].msg
                           /\ tasks'[t].pc = "add_select"
                        \/ /\ scan'.i > scan.i
                           /\ PassedOver(scan.i + 1, scan'.i)
                           /\ IF scan'.i <= Len(scan.page)
                              THEN /\ tasks'[t].pc = "analyze"
                                   /\ tasks'[t].msg = scan.page[scan'.i]
                              ELSE /\ tasks'[t].pc = "get_messages"
                                   /\ scan'.offset_id = scan.page[Len(scan.page)]]_vars

\* C25 witness: in the first run the analysis of the newest message failed,
\* and the scan has then published the other message of the page and the
\* message of the next page.
C25_Witness ==
    /\ runs = 1
    /\ faults = 1
    /\ delivered = 0
    /\ tasks[Backfill].pc # "idle"
    /\ NumMsgs \in scan.analysed
    /\ Select(NumMsgs) = {}
    /\ writes[NumMsgs] = 0
    /\ \A m \in Msgs \ {NumMsgs} : writes[m] = 1

\* C26: the scan has stopped requesting pages only after a page request that
\* returned no message.
C26_StopsOnlyAfterEmptyPage ==
    tasks[Backfill].pc = "done" =>
        /\ scan.stop = "empty"
        /\ get_messages(scan.offset_id) = <<>>

\* C26, amended: the scan has stopped requesting pages only after a page
\* request that returned no message, or after one that raised; no page shorter
\* than limit and no failure in the processing of a message ends it.
C26_StopsAfterEmptyOrFailedPage ==
    tasks[Backfill].pc = "done" =>
        \/ /\ scan.stop = "empty"
           /\ get_messages(scan.offset_id) = <<>>
        \/ /\ scan.stop = "error"
           /\ faults >= 1

\* C26 witness: the first run's scan has ended after the empty page; the page
\* before it was shorter than limit and the analysis of a message had failed.
C26_Witness ==
    /\ tasks[Backfill].pc = "done"
    /\ scan.stop = "empty"
    /\ runs = 1
    /\ scan.page # <<>>
    /\ Len(scan.page) < limit
    /\ faults = 1
    /\ \E m \in scan.analysed : writes[m] = 0 /\ Select(m) = {}

\* edit_page has returned True to task t for its message and title.
EditSucceeded(t) ==
    \/ tasks[t].pc \in {"mark_select", "mark_commit"}
    \/ tasks[t].marked # "unset"

\* C27: when edit_page has returned True to two tasks for two distinct
\* messages with the same title, the page of that title contains the content
\* of both; stated for messages with text in runs in which no call fails.
C27_SameTitleKeepsBoth ==
    faults = 0 =>
        \A t, u \in TaskIds :
            (/\ EditSucceeded(t) /\ EditSucceeded(u)
             /\ tasks[t].msg # tasks[u].msg
             /\ tasks[t].title = tasks[u].title
             /\ chat[tasks[t].msg] # "" /\ chat[tasks[u].msg] # "") =>
                /\ Published(tasks[t].msg, tasks[t].title)
                /\ Published(tasks[u].msg, tasks[u].title)

\* C28: when main() has ended, by setup() returning, by a step of setup()
\* raising or by any other exception, none of the database engine, the aiohttp
\* session and the wiki site is left open.
C28_ResourcesReleasedAtExit ==
    ~Up => \A r \in Resources : resources[r] # "open"

\* The scan has gone through a page and sets the cursor for the next request.
PageDone ==
    /\ tasks[Backfill].pc \notin {"idle", "get_messages"}
    /\ tasks'[Backfill].pc = "get_messages"

\* C29: with every awaited call returning, a scan in which no page request
\* raises comes to its end after a request that returned no message (unless
\* the process is killed first); after each non-empty page the cursor is the
\* id of the last message of the page, below the cursor the page was requested
\* with (0, the first cursor, stands for "from the newest").
C29_ScanTerminates ==
    /\ Up ~> \/ ~Up
             \/ scan.stop = "error"
             \/ tasks[Backfill].pc = "done" /\ scan.stop = "empty"
    /\ [][PageDone =>
             /\ scan'.offset_id = scan.page[Len(scan.page)]
             /\ scan'.offset_id >= 1
             /\ scan.offset_id # 0 => scan'.offset_id < scan.offset_id]_vars

\* C29 witness: a scan with no failing call has ended after the third request,
\* the first two pages having moved the cursor down to the oldest message.
C29_Witness ==
    /\ tasks[Backfill].pc = "done"
    /\ scan.stop = "empty"
    /\ faults = 0
    /\ runs = 1
    /\ scan.offset_id = 1
    /\ \A m \in Msgs : scan.visits[m] = 1

\* mark_message_as_processed is being called, or was called, by task t for
\* its message with its title.
MarkCalled(t) ==
    \/ tasks[t].pc \in {"mark_select", "mark_commit"}
    \/ tasks[t].marked # "unset"

\* C30: every processed row is for a message of which a page.save under the
\* row's wiki_page has saved before, and every mark_message_as_processed call
\* comes after such a save under the title it is called with.
C30_ProcessedWasPublished ==
    /\ \A k \in Rows :
           messages[k].is_processed =>
               <<messages[k].message_id, messages[k].wiki_page>> \in saved
    /\ \A t \in TaskIds :
           MarkCalled(t) => <<tasks[t].msg, tasks[t].title>> \in saved

\* C30 witness: a row is processed under a title whose page no longer holds
\* the message's content, another message's create_page having replaced it.
C30_Witness ==
    \E k \in Rows :
        /\ messages[k].is_processed
        /\ messages[k].wiki_page \in Titles
        /\ chat[messages[k].message_id] # ""
        /\ ~Published(messages[k].message_id, messages[k].wiki_page)

====
